---- MODULE Spec2Model ----
(***************************************************************************)
(* Model of the in-network ML preparation code:                            *)
(*   src/src/prepare_data.py  load_data, quantize_features,                *)
(*                            prepare_dataset                              *)
(*   src/src/demo.py          _prepare_features, _train_model,             *)
(*                            _print_p4_summary, main                      *)
(*   src/src/config.py        Config                                       *)
(*                                                                         *)
(* Two specifications share the variables:                                 *)
(*   Spec      the data path of both programs: load, quantize, split;      *)
(*             it ends where prepare_dataset returns and where             *)
(*             _train_model starts to fit                                  *)
(*   SpecTree  the demo after feature preparation: the trained tree and    *)
(*             the table commands _print_p4_summary prints for it          *)
(*                                                                         *)
(* Cell values are integers: within the bounds used here the float         *)
(* expression (x - min) / (max - min) * max_val followed by astype(int)    *)
(* equals the exact quotient truncated toward zero.  Labels are left out   *)
(* of the data path: no step modelled here reads them.                     *)
(***************************************************************************)
EXTENDS Integers, Sequences, FiniteSets, TLC

\* ------------------------------------------------------------- bounds
NumRows == 2      \* rows of the loaded frame
MaxRaw == 1       \* finite raw cell values are 0..MaxRaw
MaxBits == 2      \* configured widths are 1..MaxBits and the default
MaxSplits == 2    \* internal nodes of a trained tree
MaxThr2 == 4      \* twice the largest split threshold

\* -------------------------------------------------- program constants
DefaultBits == 8          \* Config.quantize_bits
DemoMaxVal == 255         \* literal in demo._prepare_features
DemoMaxDepth == 4         \* max_depth in demo._train_model
MaxTreeDepth == 5         \* Config.max_tree_depth
SummaryFeatures == 3      \* features[:3] in _print_p4_summary
TableHigh == 255          \* upper end printed by _print_p4_summary
TestSizePct == 20         \* Config.test_size, in percent
TREE_UNDEFINED == 0 - 2      \* sklearn: feature and threshold of a leaf
TREE_LEAF == 0 - 1           \* sklearn: child pointer of a leaf

\* Config.p4_features, in order
p4_features == <<"sttl", "sport", "dsport", "sbytes", "dbytes">>

\* The columns carried through the data path.
Cols == {"sttl", "sport"}

VARIABLES
    prog,       \* "prepare_data" or "demo": which main() runs
    pc,         \* position in that main()
    bits,       \* config.quantize_bits
    df,         \* the CSV contents, column -> sequence of cells
    X,          \* feature frame after numeric coercion
    X_quant,    \* quantized frame
    X_train,    \* training partition (row index -> row), or <<>>
    X_test,     \* test partition
    fits,       \* log of bound computations: one record per (column, fit)
    raised,     \* exception that ended the run, or "none"
    tree,       \* dt.tree_: node id -> [feature, threshold2, left, right, value, depth]
    emitted     \* table_add commands printed so far

vars == <<prog, pc, bits, df, X, X_quant, X_train, X_test, fits, raised,
          tree, emitted>>

dataVars == <<prog, bits, df, X, X_quant, X_train, X_test, fits, raised>>

\* ------------------------------------------------------------- cells
Num(n) == [k |-> "num", v |-> n]
NaN == [k |-> "nan", v |-> 0]
PosInf == [k |-> "inf", v |-> 0]
NegInf == [k |-> "-inf", v |-> 0]
Str == [k |-> "str", v |-> 0]

FiniteCells == {Num(n) : n \in 0..MaxRaw}
RawCells == FiniteCells \cup {NaN, PosInf, NegInf, Str}

IsFinite(c) == c.k = "num"

BitWidths == (1..MaxBits) \cup {DefaultBits}

Pow2(n) == 2 ^ n

Rows == 1..NumRows

\* pd.to_numeric(errors="coerce"): what does not parse becomes NaN
to_numeric(c) == IF c.k = "str" THEN NaN ELSE c

\* DataFrame.fillna(0)
fillna(c) == IF c.k = "nan" THEN Num(0) ELSE c

\* DataFrame.replace([np.inf, -np.inf], 0)
replace_inf(c) == IF c.k \in {"inf", "-inf"} THEN Num(0) ELSE c

\* Series.min / Series.max of a column of numbers
SeqMin(s) == CHOOSE m \in {s[i] : i \in DOMAIN s} : \A j \in DOMAIN s : m <= s[j]
SeqMax(s) == CHOOSE m \in {s[i] : i \in DOMAIN s} : \A j \in DOMAIN s : m >= s[j]

\* astype(int) of a quotient a / b: truncation toward zero
Trunc(a, b) ==
    IF (a >= 0) = (b > 0) THEN (IF a >= 0 THEN a ELSE -a) \div (IF b > 0 THEN b ELSE -b)
    ELSE -((IF a >= 0 THEN a ELSE -a) \div (IF b > 0 THEN b ELSE -b))

\* Series.clip(lo, hi)
clip(v, lo, hi) == IF v < lo THEN lo ELSE IF v > hi THEN hi ELSE v

\* ------------------------------------------------------- quantization
\* prepare_data lines 74-78 / demo lines 112-116: coerce, then put 0 in
\* place of NaN and of +-inf.  The result is a column of numbers.
Substitute(col) == [i \in DOMAIN col |-> replace_inf(fillna(to_numeric(col[i]))).v]

\* col_min, col_max = X[col].min(), X[col].max()
Bounds(s) == [min |-> SeqMin(s), max |-> SeqMax(s)]

\* Scaling by the number of values in the range instead of its width.
ScaledOffByOne(x, col_min, col_max, max_val) ==
    Trunc((x - col_min) * max_val, col_max - col_min + 1)

\* Scaling the distance from the maximum instead of from the minimum.
ScaledReversed(x, col_min, col_max, max_val) ==
    Trunc((col_max - x) * max_val, col_max - col_min)

\* prepare_data line 83: ((x - col_min) / (col_max - col_min) * max_val).astype(int)
Scaled(x, col_min, col_max, max_val) ==
    Trunc((x - col_min) * max_val, col_max - col_min)

\* A constant column left as it is.
DegenerateKeep(x) == x

\* prepare_data line 85: X_quant[col] = 0
Degenerate(x) == 0

\* prepare_data lines 80-86, one column s of numbers
QuantizeColumn(s, max_val) ==
    LET b == Bounds(s)
    IN  [i \in DOMAIN s |->
            clip(IF b.max > b.min THEN Scaled(s[i], b.min, b.max, max_val)
                                  ELSE Degenerate(s[i]),
                 0, max_val)]

\* prepare_data.quantize_features(X, bits)
quantize_features(F, b) ==
    LET max_val == Pow2(b) - 1
    IN  [c \in Cols |-> QuantizeColumn(Substitute(F[c]), max_val)]

\* demo line 129: ((x - col_min) / (col_max - col_min) * 255).astype(int)
DemoScaled(x, col_min, col_max) ==
    Trunc((x - col_min) * DemoMaxVal, col_max - col_min)

\* demo line 131: X[col] = 0
DemoDegenerate(x) == 0

\* demo lines 126-132, one column s of numbers
DemoQuantizeColumn(s) ==
    LET b == Bounds(s)
    IN  [i \in DOMAIN s |->
            clip(IF b.max > b.min THEN DemoScaled(s[i], b.min, b.max)
                                  ELSE DemoDegenerate(s[i]),
                 0, DemoMaxVal)]

\* the quantization of demo._prepare_features (config is not read)
prepare_features_quantize(F) ==
    [c \in Cols |-> DemoQuantizeColumn(Substitute(F[c]))]

\* ---------------------------------------------------------- data path
\* The frames a CSV may hold.  sttl takes every kind of cell; sport takes
\* numbers and missing entries.
Frames ==
    {[sttl |-> a, sport |-> b] :
        a \in [Rows -> RawCells], b \in [Rows -> FiniteCells \cup {NaN}]}
EmptyFrame == [c \in Cols |-> <<>>]
NoFits == [c \in Cols |-> <<>>]

Row(F, i) == [c \in Cols |-> F[c][i]]

\* train_test_split: n_test = ceil(test_size * n)
TestCount(n) == (n * TestSizePct + 99) \div 100

\* A partition that quantizes its own rows again, with bounds fitted on
\* those rows alone.
RefitPartition(T) ==
    LET part == [c \in Cols |-> [i \in T |-> X[c][i]]]
        q == quantize_features(part, bits)
    IN  [i \in T |-> [c \in Cols |-> q[c][i]]]

\* prepare_dataset lines 109-114: the rows train_test_split returns for
\* the index set T are rows of X_quant
Partition(T) == [i \in T |-> Row(X_quant, i)]

\* demo lines 149-151: the rows are rows of the frame _prepare_features
\* returned
DemoPartition(T) == [i \in T |-> Row(X, i)]

NoTree == <<>>

Init ==
    /\ prog \in {"prepare_data", "demo"}
    /\ pc = "start"
    /\ bits \in BitWidths
    /\ df \in {[found |-> TRUE, cols |-> f] : f \in Frames}
              \cup {[found |-> FALSE, cols |-> EmptyFrame]}
    /\ X = EmptyFrame
    /\ X_quant = EmptyFrame
    /\ X_train = <<>>
    /\ X_test = <<>>
    /\ fits = NoFits
    /\ raised = "none"
    /\ tree = NoTree
    /\ emitted = <<>>

\* prepare_data.load_data with _extract_features_labels (line 54 coerces)
LoadData ==
    /\ prog = "prepare_data" /\ pc = "start" /\ df.found
    /\ X' = [c \in Cols |-> [i \in DOMAIN df.cols[c] |-> to_numeric(df.cols[c][i])]]
    /\ pc' = "loaded"
    /\ UNCHANGED <<prog, bits, df, X_quant, X_train, X_test, fits, raised, tree, emitted>>

\* prepare_data.load_data line 33: no file found
LoadDataFail ==
    /\ prog = "prepare_data" /\ pc = "start" /\ ~df.found
    /\ raised' = "FileNotFoundError"
    /\ pc' = "failed"
    /\ UNCHANGED <<prog, bits, df, X, X_quant, X_train, X_test, fits, tree, emitted>>

\* prepare_dataset line 107
Quantize ==
    /\ prog = "prepare_data" /\ pc = "loaded"
    /\ X_quant' = quantize_features(X, bits)
    /\ fits' = [c \in Cols |-> Append(fits[c], Bounds(Substitute(X[c])))]
    /\ pc' = "quantized"
    /\ UNCHANGED <<prog, bits, df, X, X_train, X_test, raised, tree, emitted>>

\* prepare_dataset lines 109-114
Split ==
    /\ prog = "prepare_data" /\ pc = "quantized"
    /\ \E T \in SUBSET Rows :
          /\ Cardinality(T) = TestCount(NumRows)
          /\ X_test' = Partition(T)
          /\ X_train' = Partition(Rows \ T)
    /\ pc' = "split"
    /\ UNCHANGED <<prog, bits, df, X, X_quant, fits, raised, tree, emitted>>

\* demo._load_sample_data and main lines 30-34
LoadSampleData ==
    /\ prog = "demo" /\ pc = "start"
    /\ IF df.found
         THEN /\ X' = df.cols
              /\ pc' = "loaded"
              /\ raised' = raised
         ELSE /\ X' = X
              /\ pc' = "failed"
              /\ raised' = "return 1"
    /\ UNCHANGED <<prog, bits, df, X_quant, X_train, X_test, fits, tree, emitted>>

\* demo._prepare_features: X is overwritten column by column
PrepareFeatures ==
    /\ prog = "demo" /\ pc = "loaded"
    /\ X' = prepare_features_quantize(X)
    /\ fits' = [c \in Cols |-> Append(fits[c], Bounds(Substitute(X[c])))]
    /\ pc' = "prepared"
    /\ UNCHANGED <<prog, bits, df, X_quant, X_train, X_test, raised, tree, emitted>>

\* demo._train_model lines 149-151
TrainSplit ==
    /\ prog = "demo" /\ pc = "prepared"
    /\ \E T \in SUBSET Rows :
          /\ Cardinality(T) = TestCount(NumRows)
          /\ X_test' = DemoPartition(T)
          /\ X_train' = DemoPartition(Rows \ T)
    /\ pc' = "split"
    /\ UNCHANGED <<prog, bits, df, X, X_quant, fits, raised, tree, emitted>>

Next ==
    \/ LoadData
    \/ LoadDataFail
    \/ Quantize
    \/ Split
    \/ LoadSampleData
    \/ PrepareFeatures
    \/ TrainSplit

Spec == Init /\ [][Next]_vars

\* ------------------------------------------------- claims: data path
Quantized == IF prog = "demo" THEN X ELSE X_quant

AfterQuantize == pc \in {"quantized", "prepared", "split"}

MaxValOf == IF prog = "demo" THEN DemoMaxVal ELSE Pow2(bits) - 1

\* the column as the scaling loop reads it
Sub(c) == Substitute(df.cols[c])

\* the specification's transform(value, bounds)
Transform(x, b, max_val) ==
    IF b.max > b.min
      THEN clip(Trunc((x - b.min) * max_val, b.max - b.min), 0, max_val)
      ELSE 0

FiniteIdx(c) == {i \in DOMAIN df.cols[c] : IsFinite(to_numeric(df.cols[c][i]))}
FiniteVals(c) == {df.cols[c][i].v : i \in FiniteIdx(c)}
SetMin(S) == CHOOSE m \in S : \A x \in S : m <= x
SetMax(S) == CHOOSE m \in S : \A x \in S : m >= x
FiniteBounds(c) == [min |-> SetMin(FiniteVals(c)), max |-> SetMax(FiniteVals(c))]

\* C2: every quantized cell is an integer in [0, 2^quantize_bits - 1], in
\* prepare_data.quantize_features and in demo._prepare_features alike.
C2_QuantizedInConfiguredRange ==
    AfterQuantize =>
        \A c \in Cols : \A i \in DOMAIN Quantized[c] :
            /\ Quantized[c][i] \in Int
            /\ 0 <= Quantized[c][i]
            /\ Quantized[c][i] <= Pow2(bits) - 1

\* C3: bounds are computed once per feature, before the split, over the
\* whole column, and every training and test row carries the value those
\* bounds give it.
C3_BoundsFittedOnceBeforeSplit ==
    /\ \A c \in Cols : Len(fits[c]) <= 1
    /\ pc \in {"start", "loaded", "failed"} =>
          /\ \A c \in Cols : fits[c] = <<>>
          /\ X_train = <<>> /\ X_test = <<>>
    /\ pc \in {"quantized", "prepared"} => X_train = <<>> /\ X_test = <<>>
    /\ pc = "split" =>
          /\ DOMAIN X_train \cup DOMAIN X_test = Rows
          /\ DOMAIN X_train \cap DOMAIN X_test = {}
          /\ \A c \in Cols :
                /\ Len(fits[c]) = 1
                /\ fits[c][1] = Bounds(Sub(c))
                /\ \A i \in DOMAIN X_train :
                      X_train[i][c] = Transform(Sub(c)[i], fits[c][1], MaxValOf)
                /\ \A i \in DOMAIN X_test :
                      X_test[i][c] = Transform(Sub(c)[i], fits[c][1], MaxValOf)

C3_Witness ==
    /\ pc = "split"
    /\ \E c \in Cols : \E i \in DOMAIN X_test : \E j \in DOMAIN X_train :
          /\ X_test[i][c] > 0
          /\ X_train[j][c] = 0
          /\ ~IsFinite(df.cols[c][j])

\* C4: the bounds are the minimum and maximum of the finite values of the
\* column only, and every non-finite entry is quantized as the value 0
\* under those bounds.
C4_BoundsOverFiniteValuesOnly ==
    AfterQuantize =>
        \A c \in Cols :
            FiniteIdx(c) # {} =>
                /\ fits[c][1] = FiniteBounds(c)
                /\ \A i \in DOMAIN df.cols[c] \ FiniteIdx(c) :
                      Quantized[c][i] = Transform(0, FiniteBounds(c), MaxValOf)

\* C5: a column without any finite value makes the fit signal
\* EmptyColumnError; it is not quantized.
C5_EmptyColumnSignalled ==
    \A c \in Cols :
        (df.found /\ FiniteIdx(c) = {}) =>
            (~AfterQuantize \/ raised = "EmptyColumnError")

\* C7: with non-degenerate bounds, quantize_features maps the rows holding
\* the column minimum to 0 and those holding the maximum to 2^bits - 1.
C7_BoundaryExactness ==
    (prog = "prepare_data" /\ AfterQuantize) =>
        \A c \in Cols :
            fits[c][1].min < fits[c][1].max =>
                \A i \in DOMAIN X_quant[c] :
                    /\ Sub(c)[i] = fits[c][1].min => X_quant[c][i] = 0
                    /\ Sub(c)[i] = fits[c][1].max => X_quant[c][i] = Pow2(bits) - 1

C7_Witness ==
    /\ prog = "prepare_data" /\ pc = "quantized" /\ bits = MaxBits
    /\ \E c \in Cols : \E i, j \in DOMAIN X_quant[c] :
          /\ fits[c][1].min < fits[c][1].max
          /\ Sub(c)[i] = fits[c][1].min /\ X_quant[c][i] = 0
          /\ Sub(c)[j] = fits[c][1].max /\ X_quant[c][j] = Pow2(MaxBits) - 1

\* C8: with degenerate bounds (min = max) every row of the column is
\* quantized to 0, in quantize_features and in _prepare_features.
C8_DegenerateColumnIsZero ==
    AfterQuantize =>
        \A c \in Cols :
            fits[c][1].min = fits[c][1].max =>
                \A i \in DOMAIN Quantized[c] : Quantized[c][i] = 0

C8_Witness ==
    /\ prog = "demo" /\ pc = "prepared"
    /\ \E c \in Cols :
          /\ fits[c][1].min = fits[c][1].max
          /\ \A i \in DOMAIN X[c] : Sub(c)[i] > 0 /\ X[c][i] = 0

\* C10: quantization keeps the order of the (substituted) values of a
\* column: x <= y gives q(x) <= q(y).
C10_OrderPreserved ==
    AfterQuantize =>
        \A c \in Cols : \A i, j \in DOMAIN Quantized[c] :
            Sub(c)[i] <= Sub(c)[j] => Quantized[c][i] <= Quantized[c][j]

C10_Witness ==
    /\ AfterQuantize
    /\ \E c \in Cols : \E i, j \in DOMAIN Quantized[c] :
          /\ Sub(c)[i] < Sub(c)[j]
          /\ Quantized[c][i] < Quantized[c][j]
          /\ ~IsFinite(df.cols[c][i])

\* ------------------------------------------------------ the demo tree
\* dt.tree_ is a function from node ids 0..node_count-1 to records.  A
\* threshold is kept as twice its value: sklearn puts it midway between
\* two feature values, so it is an integer or an integer and a half.
\* Node ids follow creation order; the code reads them only to enumerate
\* the nodes.
features == p4_features

FeatureIdx == 0..(Len(features) - 1)

Leaf(cls, d) ==
    [feature |-> TREE_UNDEFINED, threshold2 |-> 2 * TREE_UNDEFINED,
     left |-> TREE_LEAF, right |-> TREE_LEAF, value |-> cls, depth |-> d]

node_count(t) == Cardinality(DOMAIN t)

IsLeaf(t, n) == t[n].left = TREE_LEAF

Internal(t) == {n \in DOMAIN t : ~IsLeaf(t, n)}

\* dt.get_depth()
get_depth(t) == SetMax({t[n].depth : n \in DOMAIN t})

\* int(tree.threshold[node])
IntThreshold(t, n) == Trunc(t[n].threshold2, 2)

InitTree ==
    /\ prog = "demo"
    /\ pc = "split"
    /\ bits = DefaultBits
    /\ df = [found |-> TRUE, cols |-> EmptyFrame]
    /\ X = EmptyFrame
    /\ X_quant = EmptyFrame
    /\ X_train = <<>>
    /\ X_test = <<>>
    /\ fits = NoFits
    /\ raised = "none"
    /\ tree = NoTree
    /\ emitted = <<>>

\* demo._train_model line 158, dt.fit: the root node
FitStart ==
    /\ prog = "demo" /\ pc = "split"
    /\ \E cls \in {0, 1} : tree' = [n \in {0} |-> Leaf(cls, 0)]
    /\ pc' = "fitting"
    /\ UNCHANGED <<dataVars, emitted>>

\* dt.fit: one leaf becomes a split with two leaves below it
FitGrow ==
    /\ prog = "demo" /\ pc = "fitting"
    /\ Cardinality(Internal(tree)) < MaxSplits
    /\ \E n \in DOMAIN tree : \E f \in FeatureIdx : \E t2 \in 1..MaxThr2 :
       \E cl, cr \in {0, 1} :
          /\ IsLeaf(tree, n)
          /\ tree[n].depth < DemoMaxDepth
          /\ LET k == node_count(tree)
             IN  tree' = [m \in DOMAIN tree \cup {k, k + 1} |->
                    IF m = n THEN [tree[n] EXCEPT !.feature = f, !.threshold2 = t2,
                                                  !.left = k, !.right = k + 1]
                    ELSE IF m = k THEN Leaf(cl, tree[n].depth + 1)
                    ELSE IF m = k + 1 THEN Leaf(cr, tree[n].depth + 1)
                    ELSE tree[m]]
    /\ UNCHANGED <<dataVars, pc, emitted>>

\* dt.fit returns
FitDone ==
    /\ prog = "demo" /\ pc = "fitting"
    /\ pc' = "trained"
    /\ UNCHANGED <<dataVars, tree, emitted>>

\* _print_p4_summary lines 174-177: the thresholds of feature i
Thresholds(t, i) == {IntThreshold(t, n) : n \in {m \in DOMAIN t : t[m].feature = i}}

\* _print_p4_summary lines 179-182: the two commands of feature i
TableCommands(t, i) ==
    IF Thresholds(t, i) # {}
      THEN LET thr == SetMin(Thresholds(t, i))
           IN  << [table |-> i, low |-> 0, high |-> thr, code |-> 0],
                  [table |-> i, low |-> thr + 1, high |-> TableHigh, code |-> 1] >>
      ELSE << >>

\* _print_p4_summary line 173: for i, feat in enumerate(features[:3])
RECURSIVE SummaryFrom(_, _)
SummaryFrom(t, i) ==
    IF i >= SummaryFeatures \/ i >= Len(features) THEN << >>
    ELSE TableCommands(t, i) \o SummaryFrom(t, i + 1)

\* demo.main line 66
PrintSummary ==
    /\ prog = "demo" /\ pc = "trained"
    /\ emitted' = SummaryFrom(tree, 0)
    /\ pc' = "done"
    /\ UNCHANGED <<dataVars, tree>>

NextTree ==
    \/ FitStart
    \/ FitGrow
    \/ FitDone
    \/ PrintSummary

SpecTree == InitTree /\ [][NextTree]_vars

\* ------------------------------------------------ claims: the tables
\* the values a row may hold in a feature
SampleVals == (0..(MaxThr2 \div 2 + 1)) \cup {TableHigh}

UsedFeatures(t) == {t[n].feature : n \in Internal(t)}

SampleRows(t) == [UsedFeatures(t) -> SampleVals]

\* dt.predict on one row: value <= threshold goes left
RECURSIVE Predict(_, _, _)
Predict(t, n, row) ==
    IF IsLeaf(t, n) THEN t[n].value
    ELSE IF 2 * row[t[n].feature] <= t[n].threshold2
           THEN Predict(t, t[n].left, row)
           ELSE Predict(t, t[n].right, row)

Entries == {emitted[k] : k \in DOMAIN emitted}

Tables == {e.table : e \in Entries}

\* the entries of the emitted tables that a row matches
Matched(row) ==
    {e \in Entries : e.low <= row[e.table] /\ row[e.table] <= e.high}

\* C1: following the emitted entries, a row reaches exactly one outcome
\* and that outcome gives the class the tree gives the row.  The entries
\* carry codes, so the claim is stated in the weakest form every reading
\* of the codes implies: a row matches exactly one entry in each emitted
\* table, and rows that match the same entries get the same class from
\* the tree.
C1_TablesDecideTreeClass ==
    pc = "done" =>
        /\ \A row \in SampleRows(tree) : \A tb \in Tables :
              Cardinality({e \in Matched(row) : e.table = tb}) = 1
        /\ \A r1, r2 \in SampleRows(tree) :
              Matched(r1) = Matched(r2) => Predict(tree, 0, r1) = Predict(tree, 0, r2)

\* C6: a tree of depth D <= max_stages gives exactly D tables, a deeper
\* tree fails with StageBudgetExceeded and gives none.
C6_OneTablePerDepth ==
    pc = "done" =>
        IF get_depth(tree) <= MaxTreeDepth
          THEN Cardinality(Tables) = get_depth(tree)
          ELSE raised = "StageBudgetExceeded" /\ emitted = << >>

\* C9: for every split with threshold t in [0, 255] the entries emitted
\* for it are [0, t] for the left outcome and [t + 1, 255] for the right
\* one, each with low <= high.
C9_RangesPerSplit ==
    pc = "done" =>
        \A n \in Internal(tree) :
            LET thr == IntThreshold(tree, n)
                f == tree[n].feature
                mine == {e \in Entries :
                            e.table = f /\ (e.high = thr \/ e.low = thr + 1)}
            IN  (0 <= thr /\ thr <= TableHigh) =>
                    /\ mine = {[table |-> f, low |-> 0, high |-> thr, code |-> 0],
                               [table |-> f, low |-> thr + 1, high |-> TableHigh,
                                code |-> 1]}
                    /\ \A e \in mine : e.low <= e.high

====
